---- MODULE Spec2Model ----
(***************************************************************************)
(* tcurse: a command-line client of the Recurse Center hub check-in API.   *)
(*                                                                         *)
(*   src/src/lib.rs   ApiClient: five operations, one HTTP exchange each   *)
(*   src/src/main.rs  the checkin / checked-in commands                    *)
(*                                                                         *)
(* Spec    drives the five ApiClient operations against the remote         *)
(*         service, one call per step.                                     *)
(* SpecCli runs one command invocation of main.rs, one step per await.     *)
(*                                                                         *)
(* Strings that the code takes apart (the date argument) are sequences of  *)
(* one-character strings; Option<T> is a sequence of length 0 or 1;        *)
(* Result<T, String> is a record with an ok flag.                          *)
(***************************************************************************)
EXTENDS Integers, Sequences, FiniteSets, TLC

VARIABLES
    visits,      \* the remote service's hub visits (the source of truth)
    visits0,     \* the service's hub visits when the behaviour started
    last,        \* Spec: the last ApiClient call: op, args, request, response, result,
                 \*       the service's visits before it, and the call before it
    ncalls,      \* Spec: number of ApiClient calls made so far
    cmd,         \* SpecCli: the parsed command line (Commands)
    pc,          \* SpecCli: the await the command is suspended at
    sent,        \* SpecCli: the requests issued so far, in order
    answers,     \* SpecCli: the responses received so far, in order
    inflight,    \* SpecCli: the requests issued and not yet answered
    me,          \* SpecCli: checkin's `me`
    existing,    \* SpecCli: what get_my_visit returned to checkin
    cmd_result,  \* SpecCli: the Result the command returned to main, once it has
    exit_code    \* SpecCli: the process exit status, -1 while running

vars == <<visits, visits0, last, ncalls, cmd, pc, sent, answers, inflight, me,
          existing, cmd_result, exit_code>>

----------------------------------------------------------------------------
(* Bounds *)

\* Spec: the number of ApiClient calls one behaviour makes.
MaxCalls == 2

\* The person ids the calls and the service know.
PersonIds == {1, 2}

----------------------------------------------------------------------------
(* Option and Result *)

None == <<>>
Some(x) == <<x>>
is_none(o) == Len(o) = 0
is_some(o) == Len(o) = 1
unwrap(o) == o[1]

Ok(v) == [ok |-> TRUE, val |-> v]
Err(e) == [ok |-> FALSE, err |-> e]

\* The three error strings of the client, by their fixed prefix.
RequestFailed == <<"Request failed">>
ApiError(status) == <<"API error", status>>
ParseFailed == <<"Failed to parse response">>

----------------------------------------------------------------------------
(* Strings and dates *)

API_BASE == "https://www.recurse.com/api/v1"

TOKEN == "rc-token"

Jan15 == <<"2","0","2","4","-","0","1","-","1","5">>
Jan16 == <<"2","0","2","4","-","0","1","-","1","6">>

\* The dates the ApiClient harness passes (opaque to the client).
LibDates == {Jan15}

NoteStrings == {<<>>, <<"a">>}

\* Option<&str> notes arguments; <<>> inside Some is the empty string.
NotesArgs == {None} \cup {Some(n) : n \in NoteStrings}

----------------------------------------------------------------------------
(* Dates: chrono's "%Y-%m-%d", formatting and parsing.                     *)

Digits == <<"0", "1", "2", "3", "4", "5", "6", "7", "8", "9">>

IsDigit(c) == \E i \in 1..10 : Digits[i] = c
DigitVal(c) == (CHOOSE i \in 1..10 : Digits[i] = c) - 1

Drop(s, n) == SubSeq(s, n + 1, Len(s))

\* Length of the longest all-digit prefix of s, at most max long.
RECURSIVE DigitPrefix(_, _)
DigitPrefix(s, max) ==
    IF max = 0 \/ s = <<>> \/ ~IsDigit(Head(s)) THEN 0
    ELSE 1 + DigitPrefix(Tail(s), max - 1)

RECURSIVE Decimal(_)
Decimal(s) ==
    IF s = <<>> THEN 0 ELSE 10 * Decimal(SubSeq(s, 1, Len(s) - 1)) + DigitVal(s[Len(s)])

\* scan::number(s, min, max): between min and max digits, as many as there are.
scan_number(s, min, max) ==
    LET n == DigitPrefix(s, max)
    IN  IF n < min THEN [ok |-> FALSE]
        ELSE [ok |-> TRUE, val |-> Decimal(SubSeq(s, 1, n)), rest |-> Drop(s, n)]

\* Numeric::Year is signed: after a sign any number of digits, else up to 4.
scan_year(s) ==
    IF s # <<>> /\ Head(s) \in {"+", "-"} THEN
        LET n == scan_number(Tail(s), 1, Len(s))
        IN  IF ~n.ok THEN n
            ELSE [ok |-> TRUE, val |-> IF Head(s) = "-" THEN -n.val ELSE n.val,
                  rest |-> n.rest]
    ELSE scan_number(s, 1, 4)

scan_literal(s, c) ==
    IF s # <<>> /\ Head(s) = c THEN [ok |-> TRUE, rest |-> Tail(s)] ELSE [ok |-> FALSE]

is_leap_year(year) == year % 4 = 0 /\ (year % 100 # 0 \/ year % 400 = 0)

ndays_in_month(year, month) ==
    CASE month \in {4, 6, 9, 11} -> 30
      [] month = 2 -> IF is_leap_year(year) THEN 29 ELSE 28
      [] OTHER -> 31

\* NaiveDate::from_ymd_opt
from_ymd_opt(year, month, day) ==
    IF month \in 1..12 /\ day >= 1 /\ day <= ndays_in_month(year, month)
    THEN Some([year |-> year, month |-> month, day |-> day]) ELSE None

\* NaiveDate::parse_from_str(s, "%Y-%m-%d"): the parsed date, or None.  The
\* numeric items take fewer digits than their padded width; nothing may
\* follow the day.
parse_from_str(s) ==
    LET y == scan_year(s)
        l1 == IF y.ok THEN scan_literal(y.rest, "-") ELSE y
        m == IF l1.ok THEN scan_number(l1.rest, 1, 2) ELSE l1
        l2 == IF m.ok THEN scan_literal(m.rest, "-") ELSE m
        d == IF l2.ok THEN scan_number(l2.rest, 1, 2) ELSE l2
    IN  IF d.ok /\ d.rest = <<>> THEN from_ymd_opt(y.val, m.val, d.val) ELSE None

\* n in decimal, zero-padded to width digits (n >= 0).
RECURSIVE Padded(_, _)
Padded(n, width) ==
    IF width = 0 /\ n = 0 THEN <<>>
    ELSE Padded(n \div 10, IF width = 0 THEN 0 ELSE width - 1) \o <<Digits[(n % 10) + 1]>>

\* date.format("%Y-%m-%d").to_string(), for the years 0..9999
format_ymd(date) ==
    Padded(date.year, 4) \o <<"-">> \o Padded(date.month, 2) \o <<"-">> \o Padded(date.day, 2)

\* Local::now(): the local calendar date of the invocation.
LocalNow == [year |-> 2024, month |-> 1, day |-> 15]

----------------------------------------------------------------------------
(* HTTP *)

NOT_FOUND == 404

\* The status codes the service is made to answer with.
Statuses == {200, 204, 401, 404, 500}

is_success(status) == status >= 200 /\ status <= 299

Request(method, url, query, json) ==
    [method |-> method, url |-> url, query |-> query,
     bearer |-> TOKEN, json |-> json]

NetErr == [kind |-> "neterr"]
Http(status, body) == [kind |-> "http", status |-> status, body |-> body]

\* Response bodies, by the JSON shape they hold; val lists the JSON objects
\* of the body (one for an object, any number for an array, none otherwise).
Body(shape, val) == [shape |-> shape, val |-> val]
MalformedBody == Body("malformed", <<>>)
EmptyBody == Body("empty", <<>>)

PersonName(id) == <<"person", id>>

ProfileJson(id) == [id |-> id, name |-> PersonName(id)]

VisitJson(v) ==
    [date |-> v.date, notes |-> v.notes,
     person |-> [id |-> v.person_id, name |-> PersonName(v.person_id)]]

\* response.json::<Profile>()
DecodeProfile(body) ==
    IF body.shape = "profile" THEN Ok(body.val[1]) ELSE Err(ParseFailed)

\* response.json::<HubVisit>(); #[serde(default)] fills a missing notes field
DecodeHubVisit(body) ==
    CASE body.shape = "visit" -> Ok(body.val[1])
      [] body.shape = "visit_nonotes" ->
            Ok([date |-> body.val[1].date, notes |-> None,
                person |-> body.val[1].person])
      [] OTHER -> Err(ParseFailed)

\* Decoding a list with a default for what does not decode.
DecodeVisits_or_default(body) ==
    IF body.shape = "visits" THEN Ok(body.val) ELSE Ok(<<>>)

\* response.json::<Vec<HubVisit>>()
DecodeVisits(body) ==
    IF body.shape = "visits" THEN Ok(body.val) ELSE Err(ParseFailed)

----------------------------------------------------------------------------
(* ApiClient (lib.rs): the request each operation sends, and the result it *)
(* makes of the response.                                                  *)

get_current_user_request ==
    Request("GET", <<API_BASE, "profiles", "me">>, <<>>, None)

get_current_user_result(resp) ==
    IF resp.kind = "neterr" THEN Err(RequestFailed)
    ELSE IF ~is_success(resp.status) THEN Err(ApiError(resp.status))
    ELSE DecodeProfile(resp.body)

get_visit_request(person_id, date) ==
    Request("GET", <<API_BASE, "hub_visits", person_id, date>>, <<>>, None)

\* get_visit without the 404 case.
get_visit_result_404_is_error(resp) ==
    IF resp.kind = "neterr" THEN Err(RequestFailed)
    ELSE IF ~is_success(resp.status) THEN Err(ApiError(resp.status))
    ELSE LET visit == DecodeHubVisit(resp.body)
         IN  IF visit.ok THEN Ok(Some(visit.val)) ELSE visit

get_visit_result(resp) ==
    IF resp.kind = "neterr" THEN Err(RequestFailed)
    ELSE IF resp.status = NOT_FOUND THEN Ok(None)
    ELSE IF ~is_success(resp.status) THEN Err(ApiError(resp.status))
    ELSE LET visit == DecodeHubVisit(resp.body)
         IN  IF visit.ok THEN Ok(Some(visit.val)) ELSE visit

get_visits_request(date) ==
    Request("GET", <<API_BASE, "hub_visits">>, <<<<"date", date>>>>, None)

get_visits_result(resp) ==
    IF resp.kind = "neterr" THEN Err(RequestFailed)
    ELSE IF ~is_success(resp.status) THEN Err(ApiError(resp.status))
    ELSE DecodeVisits(resp.body)

\* create_or_update_visit sending a body only for non-empty notes.
create_or_update_visit_request_skips_empty(person_id, date, notes) ==
    Request("PATCH", <<API_BASE, "hub_visits", person_id, date>>, <<>>,
            IF is_some(notes) /\ unwrap(notes) # <<>>
            THEN Some([notes |-> unwrap(notes)]) ELSE None)

\* create_or_update_visit never attaching the body.
create_or_update_visit_request_no_body(person_id, date, notes) ==
    Request("PATCH", <<API_BASE, "hub_visits", person_id, date>>, <<>>, None)

create_or_update_visit_request(person_id, date, notes) ==
    Request("PATCH", <<API_BASE, "hub_visits", person_id, date>>, <<>>,
            IF is_some(notes) THEN Some([notes |-> unwrap(notes)]) ELSE None)

create_or_update_visit_result(resp) ==
    IF resp.kind = "neterr" THEN Err(RequestFailed)
    ELSE IF ~is_success(resp.status) THEN Err(ApiError(resp.status))
    ELSE DecodeHubVisit(resp.body)

delete_visit_request(person_id, date) ==
    Request("DELETE", <<API_BASE, "hub_visits", person_id, date>>, <<>>, None)

\* delete_visit taking a 404 for "already gone".
delete_visit_result_404_is_ok(resp) ==
    IF resp.kind = "neterr" THEN Err(RequestFailed)
    ELSE IF resp.status = NOT_FOUND THEN Ok(<<>>)
    ELSE IF ~is_success(resp.status) THEN Err(ApiError(resp.status))
    ELSE Ok(<<>>)

\* delete_visit decoding the body of a 2xx answer as the other operations do.
delete_visit_result_decodes_body(resp) ==
    IF resp.kind = "neterr" THEN Err(RequestFailed)
    ELSE IF ~is_success(resp.status) THEN Err(ApiError(resp.status))
    ELSE LET visit == DecodeHubVisit(resp.body)
         IN  IF visit.ok THEN Ok(<<>>) ELSE visit

delete_visit_result(resp) ==
    IF resp.kind = "neterr" THEN Err(RequestFailed)
    ELSE IF ~is_success(resp.status) THEN Err(ApiError(resp.status))
    ELSE Ok(<<>>)

----------------------------------------------------------------------------
(* The remote service and the network between it and the client.           *)

\* The authenticated user behind TOKEN.
MeId == 1

Visit(person_id, date, notes) ==
    [person_id |-> person_id, date |-> date, notes |-> notes]

VisitsAt(vs, person_id, date) ==
    {v \in vs : v.person_id = person_id /\ v.date = date}

VisitsOn(vs, date) == {v \in vs : v.date = date}

\* The visits of a date in the service's order (by person id).
RECURSIVE VisitList(_)
VisitList(S) ==
    IF S = {} THEN <<>>
    ELSE LET v == CHOOSE x \in S : \A y \in S : x.person_id <= y.person_id
         IN  <<VisitJson(v)>> \o VisitList(S \ {v})

\* PATCH /hub_visits/{person_id}/{date}: replaces the visit of the key.  What
\* a PATCH without a body does to the notes of an existing visit is the
\* service's choice (clear).
ServerPatch(vs, person_id, date, json, clear) ==
    LET old == VisitsAt(vs, person_id, date)
        kept == IF old = {} \/ clear THEN None
                ELSE (CHOOSE v \in old : TRUE).notes
        notes == IF is_some(json) THEN Some(unwrap(json).notes) ELSE kept
    IN  (vs \ old) \cup {Visit(person_id, date, notes)}

\* What the service answers to req in state vs, and the state it moves to.
Served(vs, req, clear) ==
    LET url == req.url
        reply(resp, after) == [resp |-> resp, visits |-> after, applied |-> TRUE]
    IN  IF req.bearer # TOKEN THEN reply(Http(401, MalformedBody), vs)
        ELSE IF Len(url) = 3 THEN
            reply(Http(200, Body("profile", <<ProfileJson(MeId)>>)), vs)
        ELSE IF Len(url) = 2 THEN
            reply(Http(200, Body("visits", VisitList(VisitsOn(vs, req.query[1][2])))), vs)
        ELSE LET at == VisitsAt(vs, url[3], url[4])
             IN  CASE req.method = "GET" ->
                        IF at = {} THEN reply(Http(404, MalformedBody), vs)
                        ELSE reply(Http(200, Body("visit", <<VisitJson(CHOOSE v \in at : TRUE)>>)), vs)
                   [] req.method = "PATCH" ->
                        LET after == ServerPatch(vs, url[3], url[4], req.json, clear)
                        IN  reply(Http(200, Body("visit",
                                <<VisitJson(CHOOSE v \in VisitsAt(after, url[3], url[4]) : TRUE)>>)),
                              after)
                   [] req.method = "DELETE" ->
                        IF at = {} THEN reply(Http(404, MalformedBody), vs)
                        ELSE reply(Http(204, EmptyBody), vs \ at)
                   [] OTHER -> reply(Http(405, MalformedBody), vs)

\* Bodies a failing or foreign endpoint may answer with, whatever was asked.
FaultBodies ==
    { MalformedBody,
      Body("profile", <<ProfileJson(MeId)>>),
      Body("visit", <<VisitJson(Visit(MeId, Jan15, Some(<<"a">>)))>>),
      Body("visit_nonotes", <<[date |-> Jan15, person |-> ProfileJson(MeId)]>>),
      Body("visits", <<>>) }

\* Every way one exchange can end: the request is lost; it is served (and
\* the answer arrives or is lost); or something answers in the service's place.
Outcomes(vs, req) ==
    {[resp |-> NetErr, visits |-> vs, applied |-> FALSE]}
    \cup {Served(vs, req, clear) : clear \in BOOLEAN}
    \cup {[resp |-> NetErr, visits |-> Served(vs, req, clear).visits, applied |-> TRUE] :
             clear \in BOOLEAN}
    \cup {[resp |-> Http(status, body), visits |-> vs, applied |-> FALSE] :
             status \in Statuses, body \in FaultBodies}

----------------------------------------------------------------------------
(* Spec: the ApiClient operations, one call per step.                      *)

Call(op, args, req, out, result) ==
    /\ ncalls' = ncalls + 1
    /\ visits' = out.visits
    /\ last' = [op |-> op, args |-> args, req |-> req, resp |-> out.resp,
                applied |-> out.applied, result |-> result, before |-> visits,
                prev |-> IF last.op = "none" THEN last
                         ELSE [op |-> last.op, args |-> last.args,
                               applied |-> last.applied]]
    /\ UNCHANGED <<visits0, cmd, pc, sent, answers, inflight, me, existing,
                   cmd_result, exit_code>>

GetCurrentUser ==
    /\ ncalls < MaxCalls
    /\ \E out \in Outcomes(visits, get_current_user_request) :
        Call("get_current_user", <<>>, get_current_user_request, out,
             get_current_user_result(out.resp))

GetVisit ==
    /\ ncalls < MaxCalls
    /\ \E person_id \in PersonIds, date \in LibDates :
        LET req == get_visit_request(person_id, date)
        IN  \E out \in Outcomes(visits, req) :
                Call("get_visit", <<person_id, date>>, req, out,
                     get_visit_result(out.resp))

GetVisits ==
    /\ ncalls < MaxCalls
    /\ \E date \in LibDates :
        LET req == get_visits_request(date)
        IN  \E out \in Outcomes(visits, req) :
                Call("get_visits", <<date>>, req, out, get_visits_result(out.resp))

CreateOrUpdateVisit ==
    /\ ncalls < MaxCalls
    /\ \E person_id \in PersonIds, date \in LibDates, notes \in NotesArgs :
        LET req == create_or_update_visit_request(person_id, date, notes)
        IN  \E out \in Outcomes(visits, req) :
                Call("create_or_update_visit", <<person_id, date, notes>>, req, out,
                     create_or_update_visit_result(out.resp))

DeleteVisit ==
    /\ ncalls < MaxCalls
    /\ \E person_id \in PersonIds, date \in LibDates :
        LET req == delete_visit_request(person_id, date)
        IN  \E out \in Outcomes(visits, req) :
                Call("delete_visit", <<person_id, date>>, req, out,
                     delete_visit_result(out.resp))

NoCall == [op |-> "none"]

\* No command is running while the client is driven directly.
CliIdle ==
    /\ cmd = [kind |-> "none"]
    /\ pc = "idle"
    /\ sent = <<>>
    /\ answers = <<>>
    /\ inflight = {}
    /\ me = None
    /\ existing = None
    /\ cmd_result = None
    /\ exit_code = -1

Init ==
    /\ visits = {}
    /\ visits0 = {}
    /\ last = NoCall
    /\ ncalls = 0
    /\ CliIdle

Next ==
    \/ GetCurrentUser
    \/ GetVisit
    \/ GetVisits
    \/ CreateOrUpdateVisit
    \/ DeleteVisit

Spec == Init /\ [][Next]_vars

----------------------------------------------------------------------------
(* main.rs: the commands.                                                  *)

InvalidDate == <<"Invalid date format. Use YYYY-MM-DD">>

\* The --date arguments tried: well-formed, unpadded, out of the calendar,
\* and not of the form at all.
DateStrings ==
    { Jan15,
      Jan16,
      <<"2","0","2","4","-","0","2","-","2","9">>,
      <<"2","0","2","3","-","0","2","-","2","9">>,
      <<"2","0","2","4","-","1","3","-","0","1">>,
      <<"2","0","2","4","-","0","4","-","3","1">>,
      <<"2","0","2","4","-","1","-","5">>,
      <<"2","4","-","0","1","-","1","5">>,
      <<"2","0","2","4","0","1","1","5">>,
      <<"2","0","2","4","-","0","1","-","1","5","x">>,
      <<"t","o","d","a","y">>,
      <<>> }

\* Commands, as clap parses them.
Commands ==
    {[kind |-> "checkin", notes |-> notes, remove |-> remove] :
        notes \in NotesArgs, remove \in BOOLEAN}
    \cup {[kind |-> "checked-in", date |-> date] :
        date \in {None} \cup {Some(d) : d \in DateStrings}}

get_date_string(date_arg) ==
    IF is_some(date_arg) THEN unwrap(date_arg) ELSE format_ymd(LocalNow)

main_get_current_user_request ==
    Request("GET", <<API_BASE, "profiles", "me">>, <<>>, None)

main_get_current_user_result(resp) ==
    IF resp.kind = "neterr" THEN Err(RequestFailed)
    ELSE IF ~is_success(resp.status) THEN Err(ApiError(resp.status))
    ELSE DecodeProfile(resp.body)

get_my_visit_request(person_id, date) ==
    Request("GET", <<API_BASE, "hub_visits", person_id, date>>, <<>>, None)

\* get_my_visit taking every status outside 2xx, not only 404, for "absent".
get_my_visit_result_swallows_errors(resp) ==
    IF resp.kind = "neterr" THEN Err(RequestFailed)
    ELSE IF ~is_success(resp.status) THEN Ok(None)
    ELSE LET visit == DecodeHubVisit(resp.body)
         IN  IF visit.ok THEN Ok(Some(visit.val)) ELSE visit

get_my_visit_result(resp) ==
    IF resp.kind = "neterr" THEN Err(RequestFailed)
    ELSE IF resp.status = NOT_FOUND THEN Ok(None)
    ELSE IF ~is_success(resp.status) THEN Err(ApiError(resp.status))
    ELSE LET visit == DecodeHubVisit(resp.body)
         IN  IF visit.ok THEN Ok(Some(visit.val)) ELSE visit

checkin_delete_request(person_id, date) ==
    Request("DELETE", <<API_BASE, "hub_visits", person_id, date>>, <<>>, None)

checkin_patch_request(person_id, date, notes) ==
    Request("PATCH", <<API_BASE, "hub_visits", person_id, date>>, <<>>,
            IF is_some(notes) THEN Some([notes |-> unwrap(notes)]) ELSE None)

get_checked_in_request(date_str) ==
    Request("GET", <<API_BASE, "hub_visits">>, <<<<"date", date_str>>>>, None)

\* .send(): the request goes out.
Send(req) ==
    /\ sent' = Append(sent, req)
    /\ inflight' = inflight \cup {req}

\* A request left running instead of awaited.
Await_detached(req) == inflight

\* .await on the request req: what stays in flight once its answer is in.
Await(req) == inflight \ {req}

\* The awaited answer to req arrives.
Receive(req, out) ==
    /\ req \in inflight
    /\ out \in Outcomes(visits, req)
    /\ visits' = out.visits
    /\ answers' = Append(answers, out.resp)

\* main: the command returned result; an Err is printed and exits with 1.
Finish(result) ==
    /\ pc' = "done"
    /\ cmd_result' = Some(result)
    /\ exit_code' = IF result.ok THEN 0 ELSE 1

\* The command returns result after the answer to req.
Return(req, result) ==
    /\ Finish(result)
    /\ sent' = sent
    /\ inflight' = Await(req)

\* After the answer to req the command sends next and awaits it at `at`.
Continue(req, next, at) ==
    /\ sent' = Append(sent, next)
    /\ inflight' = Await(req) \cup {next}
    /\ pc' = at
    /\ UNCHANGED <<cmd_result, exit_code>>

\* The test without the notes: an existing visit always stops the command.
already_checked_in_ignoring_notes(visit, notes) == is_some(visit)

\* checkin's test on what get_my_visit found: stop when a visit exists and
\* there are no notes to add.
already_checked_in(visit, notes) == is_some(visit) /\ is_none(notes)

\* checkin, to the first await: get_current_user sends its request.
CheckinStart ==
    /\ pc = "main"
    /\ cmd.kind = "checkin"
    /\ Send(main_get_current_user_request)
    /\ pc' = "get_current_user"
    /\ UNCHANGED <<visits, visits0, last, ncalls, cmd, answers, me, existing,
                   cmd_result, exit_code>>

\* get_current_user returns; with --remove the DELETE goes out, else
\* get_my_visit sends its request.
CheckinUser ==
    /\ pc = "get_current_user"
    /\ \E req \in inflight : \E out \in Outcomes(visits, req) :
        LET profile == main_get_current_user_result(out.resp)
            date == get_date_string(None)
        IN  /\ Receive(req, out)
            /\ IF ~profile.ok THEN
                    /\ Return(req, profile)
                    /\ me' = me
               ELSE /\ me' = Some(profile.val)
                    /\ IF cmd.remove
                       THEN Continue(req, checkin_delete_request(profile.val.id, date),
                                     "delete")
                       ELSE Continue(req, get_my_visit_request(profile.val.id, date),
                                     "get_my_visit")
    /\ UNCHANGED <<visits0, last, ncalls, cmd, existing>>

\* The DELETE of --remove is answered.
CheckinDelete ==
    /\ pc = "delete"
    /\ \E req \in inflight : \E out \in Outcomes(visits, req) :
        /\ Receive(req, out)
        /\ Return(req,
                  IF out.resp.kind = "neterr" THEN Err(RequestFailed)
                  ELSE IF ~is_success(out.resp.status) THEN Err(ApiError(out.resp.status))
                  ELSE Ok(<<>>))
    /\ UNCHANGED <<visits0, last, ncalls, cmd, me, existing>>

\* get_my_visit returns; an existing visit and no notes ends the command,
\* else the PATCH goes out.
CheckinVisit ==
    /\ pc = "get_my_visit"
    /\ \E req \in inflight : \E out \in Outcomes(visits, req) :
        LET visit == get_my_visit_result(out.resp)
            date == get_date_string(None)
        IN  /\ Receive(req, out)
            /\ IF ~visit.ok THEN
                    /\ Return(req, visit)
                    /\ existing' = existing
               ELSE /\ existing' = Some(visit.val)
                    /\ IF already_checked_in(visit.val, cmd.notes)
                       THEN Return(req, Ok(<<>>))
                       ELSE Continue(req,
                                checkin_patch_request(unwrap(me).id, date, cmd.notes),
                                "patch")
    /\ UNCHANGED <<visits0, last, ncalls, cmd, me>>

\* The PATCH is answered and its body decoded.
CheckinPatch ==
    /\ pc = "patch"
    /\ \E req \in inflight : \E out \in Outcomes(visits, req) :
        /\ Receive(req, out)
        /\ Return(req,
                  IF out.resp.kind = "neterr" THEN Err(RequestFailed)
                  ELSE IF ~is_success(out.resp.status) THEN Err(ApiError(out.resp.status))
                  ELSE LET visit == DecodeHubVisit(out.resp.body)
                       IN  IF visit.ok THEN Ok(<<>>) ELSE visit)
    /\ UNCHANGED <<visits0, last, ncalls, cmd, me, existing>>

\* get_checked_in, to the first await: the date is resolved and validated,
\* then the list request goes out.
CheckedInStart ==
    /\ pc = "main"
    /\ cmd.kind = "checked-in"
    /\ LET date_str == get_date_string(cmd.date)
       IN  IF is_none(parse_from_str(date_str)) THEN
                /\ Finish(Err(InvalidDate))
                /\ UNCHANGED <<sent, inflight>>
           ELSE /\ Send(get_checked_in_request(date_str))
                /\ pc' = "list"
                /\ UNCHANGED <<cmd_result, exit_code>>
    /\ UNCHANGED <<visits, visits0, last, ncalls, cmd, answers, me, existing>>

\* The list request is answered and its body decoded.
CheckedInList ==
    /\ pc = "list"
    /\ \E req \in inflight : \E out \in Outcomes(visits, req) :
        /\ Receive(req, out)
        /\ Return(req,
                  IF out.resp.kind = "neterr" THEN Err(RequestFailed)
                  ELSE IF ~is_success(out.resp.status) THEN Err(ApiError(out.resp.status))
                  ELSE LET list == DecodeVisits(out.resp.body)
                       IN  IF list.ok THEN Ok(<<>>) ELSE list)
    /\ UNCHANGED <<visits0, last, ncalls, cmd, me, existing>>

\* The states the service can be in when a command starts: at most one
\* visit per (person, date).
ServiceStates ==
    {vs \in SUBSET {Visit(p, format_ymd(LocalNow), n) : p \in PersonIds, n \in NotesArgs} :
        \A v, w \in vs : v.person_id = w.person_id => v = w}

InitCli ==
    /\ visits \in ServiceStates
    /\ visits0 = visits
    /\ last = NoCall
    /\ ncalls = 0
    /\ cmd \in Commands
    /\ pc = "main"
    /\ sent = <<>>
    /\ answers = <<>>
    /\ inflight = {}
    /\ me = None
    /\ existing = None
    /\ cmd_result = None
    /\ exit_code = -1

NextCli ==
    \/ CheckinStart
    \/ CheckinUser
    \/ CheckinDelete
    \/ CheckinVisit
    \/ CheckinPatch
    \/ CheckedInStart
    \/ CheckedInList

SpecCli == InitCli /\ [][NextCli]_vars

----------------------------------------------------------------------------
(* Properties of the ApiClient operations (Spec).                          *)

Called(op) == last.op = op
Answered == last.op # "none" /\ last.resp.kind = "http"

\* The JSON shapes each operation's decoder accepts.
ExpectedShapes(op) ==
    CASE op = "get_current_user" -> {"profile"}
      [] op \in {"get_visit", "create_or_update_visit"} -> {"visit", "visit_nonotes"}
      [] op = "get_visits" -> {"visits"}
      [] OTHER -> {}

\* C1: get_visit returns Ok(None) when the service answers 404, and
\* Ok(Some(visit)) on any 2xx answer whose body is a well-formed HubVisit,
\* the visit being the one of the body.
C1_GetVisitAbsentOrPresent ==
    Called("get_visit") /\ Answered =>
        /\ last.resp.status = 404 => last.result.ok /\ is_none(last.result.val)
        /\ is_success(last.resp.status)
             /\ last.resp.body.shape \in {"visit", "visit_nonotes"} =>
                /\ last.result.ok
                /\ is_some(last.result.val)
                /\ unwrap(last.result.val).date = last.resp.body.val[1].date
                /\ unwrap(last.result.val).person = last.resp.body.val[1].person

C1_Witness ==
    /\ Called("get_visit")
    /\ Answered
    /\ last.resp.status = 404
    /\ last.result = Ok(None)

\* C2: on every status outside 2xx every operation returns the API error of
\* exactly that status, except get_visit on 404; a 404 to the other four
\* operations is an API error of status 404.
C2_ApiErrorCarriesStatus ==
    Answered /\ ~is_success(last.resp.status)
             /\ ~(Called("get_visit") /\ last.resp.status = 404) =>
        /\ ~last.result.ok
        /\ last.result.err = ApiError(last.resp.status)

C2_Witness ==
    /\ Called("delete_visit")
    /\ Answered
    /\ last.resp.status = 404
    /\ last.result = Err(ApiError(404))

\* C3 as stated: on a 2xx answer with a malformed JSON body every operation,
\* delete_visit included, returns a parse error.
C3_EveryOperationParses ==
    Answered /\ is_success(last.resp.status) /\ last.resp.body.shape = "malformed" =>
        /\ ~last.result.ok
        /\ last.result.err = ParseFailed

\* C3 amended: on a 2xx answer whose body does not decode into the shape the
\* operation expects, get_current_user, get_visit, get_visits and
\* create_or_update_visit return a parse error; delete_visit never reads the
\* body and succeeds.
C3_DecodingOperationsParse ==
    Answered /\ is_success(last.resp.status)
             /\ last.resp.body.shape \notin ExpectedShapes(last.op) =>
        IF Called("delete_visit") THEN last.result.ok
        ELSE ~last.result.ok /\ last.result.err = ParseFailed

C3_Witness ==
    /\ Called("get_visits")
    /\ Answered
    /\ is_success(last.resp.status)
    /\ last.resp.body = MalformedBody
    /\ last.result = Err(ParseFailed)

\* C4: delete_visit returns Ok(()) on any 2xx answer whatever the body, and
\* the API error of status 500 when the service answers 500.
C4_DeleteVisitIgnoresBody ==
    Called("delete_visit") /\ Answered =>
        /\ is_success(last.resp.status) => last.result = Ok(<<>>)
        /\ last.resp.status = 500 => last.result = Err(ApiError(500))

C4_Witness ==
    /\ Called("delete_visit")
    /\ Answered
    /\ last.resp.status = 204
    /\ last.resp.body = MalformedBody
    /\ last.result = Ok(<<>>)

\* C5: create_or_update_visit sends a PATCH to the visit's URL, with no JSON
\* body when notes is None and with the body {"notes": x}, that field alone,
\* when notes is Some(x), the empty string included.
C5_PatchBody ==
    Called("create_or_update_visit") =>
        /\ last.req.method = "PATCH"
        /\ last.req.url = <<API_BASE, "hub_visits", last.args[1], last.args[2]>>
        /\ is_none(last.args[3]) => is_none(last.req.json)
        /\ is_some(last.args[3]) =>
              /\ is_some(last.req.json)
              /\ DOMAIN unwrap(last.req.json) = {"notes"}
              /\ unwrap(last.req.json).notes = unwrap(last.args[3])

C5_Witness ==
    /\ Called("create_or_update_visit")
    /\ last.args[3] = Some(<<>>)
    /\ last.req.json = Some([notes |-> <<>>])

\* The last call is create_or_update_visit(pid, date, Some(a)) made right
\* after the service applied the same call.
RepeatedCreateOrUpdate ==
    /\ Called("create_or_update_visit")
    /\ is_some(last.args[3])
    /\ last.prev.op = "create_or_update_visit"
    /\ last.prev.applied
    /\ last.prev.args = last.args

\* C6: against a service that keeps one visit per (pid, date) and replaces it
\* on PATCH, when create_or_update_visit(pid, date, Some(a)) is called again
\* right after the service applied the same call, the visits of (pid, date)
\* are after the second call what they were after the first: the one visit
\* with notes a; no key ever has a second visit.
C6_CreateOrUpdateIdempotent ==
    /\ \A p \in PersonIds, d \in LibDates : Cardinality(VisitsAt(visits, p, d)) <= 1
    /\ RepeatedCreateOrUpdate =>
          /\ VisitsAt(visits, last.args[1], last.args[2])
                = VisitsAt(last.before, last.args[1], last.args[2])
          /\ VisitsAt(visits, last.args[1], last.args[2])
                = {Visit(last.args[1], last.args[2], last.args[3])}

C6_Witness ==
    /\ RepeatedCreateOrUpdate
    /\ last.applied
    /\ last.result.ok
    /\ VisitsAt(visits, last.args[1], last.args[2])
          = {Visit(last.args[1], last.args[2], Some(<<"a">>))}

----------------------------------------------------------------------------
(* Properties of the commands (SpecCli).                                   *)

IsCheckin(remove) == cmd.kind = "checkin" /\ cmd.remove = remove

\* The operation a request of the commands belongs to.
OpOf(req) ==
    CASE Len(req.url) = 3 -> "get_current_user"
      [] Len(req.url) = 2 -> "get_visits"
      [] req.method = "GET" -> "get_visit"
      [] req.method = "PATCH" -> "create_or_update_visit"
      [] OTHER -> "delete_visit"

PatchSent == \E i \in 1..Len(sent) : sent[i].method = "PATCH"

\* The answer resp to req is a failure of the exchange: no answer, a status
\* outside 2xx (but for the 404 of the visit lookup), or a 2xx body that
\* does not decode (the DELETE's body is not read).
Failed(req, resp) ==
    \/ resp.kind = "neterr"
    \/ /\ resp.kind = "http"
       /\ ~is_success(resp.status)
       /\ ~(OpOf(req) = "get_visit" /\ resp.status = 404)
    \/ /\ resp.kind = "http"
       /\ is_success(resp.status)
       /\ OpOf(req) # "delete_visit"
       /\ resp.body.shape \notin ExpectedShapes(OpOf(req))

\* The error the client makes of a failed answer.
ErrorOf(resp) ==
    IF resp.kind = "neterr" THEN RequestFailed
    ELSE IF ~is_success(resp.status) THEN ApiError(resp.status)
    ELSE ParseFailed

\* C7 as stated: a command issues at most two API calls, one at a time.
C7_AtMostTwoCalls ==
    /\ Cardinality(inflight) <= 1
    /\ Len(sent) <= 2

\* C7 amended: a command issues at most three API calls (checkin without
\* --remove: current user, visit lookup, PATCH), at most two with --remove
\* and at most one for checked-in; each is sent only after the one before it
\* was answered, so at most one is in flight.
C7_AtMostThreeSequentialCalls ==
    /\ Cardinality(inflight) <= 1
    /\ Len(sent) = Len(answers) + Cardinality(inflight)
    /\ Len(sent) <= 3
    /\ cmd.kind = "checkin" /\ cmd.remove => Len(sent) <= 2
    /\ cmd.kind = "checked-in" => Len(sent) <= 1

C7_Witness ==
    /\ pc = "done"
    /\ IsCheckin(FALSE)
    /\ Len(sent) = 3
    /\ Len(answers) = 3
    /\ exit_code = 0

\* C8: no request is sent twice, and the first failed exchange ends the
\* command: it is the last request sent, the command returns that failure's
\* error and the process exits with status 1.
C8_FirstFailureEndsCommand ==
    /\ \A i, j \in 1..Len(sent) : i < j => sent[i] # sent[j]
    /\ \A i \in 1..Len(answers) :
          Failed(sent[i], answers[i]) =>
              /\ i = Len(sent)
              /\ pc = "done"
              /\ cmd_result = Some(Err(ErrorOf(answers[i])))
              /\ exit_code = 1

C8_Witness ==
    /\ pc = "done"
    /\ IsCheckin(FALSE)
    /\ is_some(cmd.notes)
    /\ Len(sent) = 2
    /\ Len(answers) = 2
    /\ Failed(sent[2], answers[2])
    /\ exit_code = 1

\* A string of the form YYYY-MM-DD (four, two and two digits) that names a
\* day of the calendar.
IsYmdDate(s) ==
    /\ Len(s) = 10
    /\ s[5] = "-"
    /\ s[8] = "-"
    /\ \A i \in {1, 2, 3, 4, 6, 7, 9, 10} : IsDigit(s[i])
    /\ is_some(from_ymd_opt(Decimal(SubSeq(s, 1, 4)), Decimal(SubSeq(s, 6, 7)),
                            Decimal(SubSeq(s, 9, 10))))

\* C9: checked-in sends the list request only with a date of the form
\* YYYY-MM-DD; for any other date string it ends with the validation error
\* having sent nothing.
C9_ListOnlyWithYmdDate ==
    cmd.kind = "checked-in" =>
        /\ \A i \in 1..Len(sent) : IsYmdDate(sent[i].query[1][2])
        /\ ~IsYmdDate(get_date_string(cmd.date)) /\ pc = "done" =>
              /\ cmd_result = Some(Err(InvalidDate))
              /\ exit_code = 1
              /\ sent = <<>>

\* What --remove sends: the current-user GET, then at most the DELETE.
RemoveSendsOnlyDelete ==
    /\ Len(sent) <= 2
    /\ Len(sent) >= 1 => sent[1] = main_get_current_user_request
    /\ Len(sent) = 2 =>
          sent[2] = checkin_delete_request(unwrap(me).id, format_ymd(LocalNow))

\* With a visit found and no notes the command succeeds, sends no PATCH and
\* leaves the service's visits as they were.
ExistingVisitLeftAlone ==
    is_some(existing) /\ is_some(unwrap(existing)) /\ is_none(cmd.notes) =>
        /\ cmd_result = Some(Ok(<<>>))
        /\ exit_code = 0
        /\ ~PatchSent
        /\ visits = visits0

\* C10 as stated: when checkin without --remove has ended, a PATCH was sent
\* if and only if get_my_visit returned absent or notes were supplied.
C10_PatchIffAbsentOrNotes ==
    pc = "done" /\ cmd.kind = "checkin" =>
        IF cmd.remove THEN RemoveSendsOnlyDelete
        ELSE /\ PatchSent <=> (existing = Some(None) \/ is_some(cmd.notes))
             /\ ExistingVisitLeftAlone

\* C10 amended: when checkin without --remove has ended, a PATCH was sent if
\* and only if get_my_visit returned a result (neither it nor
\* get_current_user failed) and the result was absent or notes were
\* supplied; a visit found with no notes given ends the command with success,
\* no PATCH and the service's visits unchanged; --remove sends the
\* current-user GET and the DELETE only.
C10_PatchIffLookupOkAndAbsentOrNotes ==
    pc = "done" /\ cmd.kind = "checkin" =>
        IF cmd.remove THEN RemoveSendsOnlyDelete
        ELSE /\ PatchSent <=>
                  (is_some(existing) /\ (is_none(unwrap(existing)) \/ is_some(cmd.notes)))
             /\ ExistingVisitLeftAlone

C10_Witness ==
    /\ pc = "done"
    /\ IsCheckin(FALSE)
    /\ is_none(cmd.notes)
    /\ is_some(existing)
    /\ is_some(unwrap(existing))
    /\ Len(sent) = 2
    /\ visits0 # {}
    /\ visits = visits0
    /\ exit_code = 0

====
